---- MODULE Spec2Model ----
(***************************************************************************)
(* Stacking.py: a Streamlit page that loads a pickled stacking regressor,  *)
(* reads twelve feature widgets, predicts on request and shows three SHAP  *)
(* images; and TabNetRegressorWrapper, the adapter around TabNetRegressor. *)
(*                                                                         *)
(* Numbers: widget values and array entries are kept in hundredths (the    *)
(* default step of a float number_input), predictions in thousandths.      *)
(***************************************************************************)
EXTENDS Integers, Sequences, FiniteSets, TLC

VARIABLES
    disk,                \* files on disk: the pickle and the three PNGs
    widgets,             \* the value each sidebar widget currently holds
    predict_button,      \* TRUE in the run triggered by pressing Predict
    pc,                  \* the script's position in the current run
    stacking_regressor,  \* the object joblib.load returned in this run
    features,            \* the script variables SEX .. V of this run
    input_array,         \* the script variable input_array, <<>> before line 78
    predict_arg,         \* the argument the regressor's predict received
    prediction,          \* <<p>> once line 79 has returned
    log,                 \* this run's calls and page elements, in order
    first,               \* observer: the session's first run, inputs and page
    predicted,           \* observer: an earlier run showed a prediction
    diskChanges,         \* observer: file changes during the session so far
    adX, adY,            \* the adapter's arguments X and y
    tabnet_fit,          \* what TabNetRegressor.fit received, <<>> before
    tabnet_predict,      \* what TabNetRegressor.predict received
    wrapper_result       \* what the adapter's predict returned

appVars == <<disk, widgets, predict_button, pc, stacking_regressor, features,
             input_array, predict_arg, prediction, log, first, predicted,
             diskChanges>>
adVars == <<adX, adY, tabnet_fit, tabnet_predict, wrapper_result>>
vars == <<disk, widgets, predict_button, pc, stacking_regressor, features,
          input_array, predict_arg, prediction, log, first, predicted,
          diskChanges, adX, adY, tabnet_fit, tabnet_predict, wrapper_result>>

----------------------------------------------------------------------------
(* Bounds *)

\* alternative input vectors the user may enter besides the defaults
NumAltInputs == 1
\* changes of a file on disk during one session
MaxDiskChanges == 1
\* rows and columns of the matrices handed to the adapter
MaxRows == 2
MaxCols == 2

----------------------------------------------------------------------------
(* The sidebar: lines 58-69 *)

FeatureNames == <<"SEX", "AGE", "WT", "Single_Dose", "Daily_Dose", "SCR",
                  "CLCR", "BUN", "ALT", "AST", "CL", "V">>

NumFeatures == Len(FeatureNames)

\* value= of each widget (index 0 of the selectbox options), in hundredths
DefaultValue == [SEX |-> 0, AGE |-> 500, WT |-> 2500, Single_Dose |-> 3000,
                 Daily_Dose |-> 45000, SCR |-> 3000, CLCR |-> 9000, BUN |-> 500,
                 ALT |-> 1800, AST |-> 1800, CL |-> 385, V |-> 1000]

\* min_value= of each widget
MinValue == [SEX |-> 0, AGE |-> 0, WT |-> 0, Single_Dose |-> 0, Daily_Dose |-> 0,
             SCR |-> 0, CLCR |-> 0, BUN |-> 0, ALT |-> 0, AST |-> 0, CL |-> 0,
             V |-> 0]

\* max_value= of each widget; the selectbox offers 0 and 1
MaxValue == [SEX |-> 1, AGE |-> 1800, WT |-> 10000, Single_Dose |-> 6000,
             Daily_Dose |-> 240000, SCR |-> 15000, CLCR |-> 20000, BUN |-> 5000,
             ALT |-> 15000, AST |-> 15000, CL |-> 10000, V |-> 100000]

\* what a widget accepts: the selectbox one of its options, a number_input a
\* value between min_value and max_value
Accepts(name, v) == MinValue[name] <= v /\ v <= MaxValue[name]

\* the k-th input vector of the bounded input set: vector 0 is the defaults, the
\* others move every number_input off its default by a different amount
InputVector(k) ==
    [name \in DOMAIN DefaultValue |->
        IF name = "SEX" THEN k % 2
        ELSE LET p == CHOOSE i \in 1..NumFeatures : FeatureNames[i] = name
             IN  DefaultValue[name] + k * p * 100]

\* the input vectors of the bounded set that the widgets accept
WidgetChoices ==
    {v \in {InputVector(k) : k \in 0..NumAltInputs} :
        \A name \in DOMAIN v : Accepts(name, v[name])}

----------------------------------------------------------------------------
(* Files *)

ModelFiles == {"missing", "good", "bad"}
    \* missing: joblib.load raises; good: loads and predicts;
    \* bad: loads, and its predict raises on a 1 x 12 input
ImageFiles == {"absent", "image", "unreadable"}
    \* absent: Image.open raises FileNotFoundError; image: opens and displays;
    \* unreadable: present, and Image.open (or st.image, which reads the pixel
    \* data) raises another exception, such as PIL's UnidentifiedImageError
Sections == 1..3

----------------------------------------------------------------------------
(* Page elements and calls *)

El(kind, what, val) == [kind |-> kind, what |-> what, val |-> val]

Call(what) == El("call", what, <<>>)

IsElement(e) == e.kind # "call"

\* what the browser shows of the current run
Page == SelectSeq(log, IsElement)

Shows(kind, what) == \E i \in 1..Len(log) : log[i].kind = kind /\ log[i].what = what

Count(kind, what) ==
    Cardinality({i \in 1..Len(log) : log[i].kind = kind /\ log[i].what = what})

----------------------------------------------------------------------------
(* The regressor behind stacking_regressor.predict, and the :.2f format *)

RECURSIVE WeightedSum(_, _)
WeightedSum(row, n) == IF n = 0 THEN 0 ELSE WeightedSum(row, n - 1) + n * row[n]

\* the pickled regressor: a deterministic function of the row, one value per
\* row, here in thousandths; it depends on the position of every value
StackingPredict(X) == [i \in 1..Len(X) |-> WeightedSum(X[i], Len(X[i])) % 100003]

\* f"{prediction:.2f}": thousandths to hundredths, ties to even
Format2f(p) ==
    LET q == p \div 10
        r == p % 10
    IN  IF r > 5 \/ (r = 5 /\ q % 2 = 1) THEN q + 1 ELSE q

\* np.array of an int among floats: the int becomes the float of that value
ToFloat(n) == n * 100

\* a faulty line 78: SCR and CLCR change places; C2 must tell it from InputArray
InputArraySwapped(f) ==
    << <<ToFloat(f.SEX), f.AGE, f.WT, f.Single_Dose, f.Daily_Dose, f.CLCR,
         f.SCR, f.BUN, f.ALT, f.AST, f.CL, f.V>> >>

\* line 78: np.array([SEX, AGE, ..., V]).reshape(1, -1), one row of twelve
InputArray(f) ==
    << <<ToFloat(f.SEX), f.AGE, f.WT, f.Single_Dose, f.Daily_Dose, f.SCR,
         f.CLCR, f.BUN, f.ALT, f.AST, f.CL, f.V>> >>

----------------------------------------------------------------------------
(* One run of the script *)

SectionPc == <<"section1", "section2", "section3">>
SectionName == <<"first-layer", "second-layer", "overall">>
OpenOp == <<"Image.open first", "Image.open second", "Image.open overall">>

Ended == pc \in {"done", "crashed"}

\* a faulty script: line 75 does not look at the button; C4 must reject it
NextPcAlwaysPredict(p) ==
    CASE p = "load" -> "title"
      [] p = "title" -> "sidebar"
      [] p = "sidebar" -> "button"
      [] p = "button" -> "predict"
      [] p = "predict" -> "shap"
      [] p = "shap" -> "section1"
      [] p = "section1" -> "section2"
      [] p = "section2" -> "section3"
      [] p = "section3" -> "footer"
      [] p = "footer" -> "done"

\* a faulty script: the prediction block comes after the image sections; C5
\* must reject it
NextPcPredictLast(p) ==
    CASE p = "load" -> "title"
      [] p = "title" -> "sidebar"
      [] p = "sidebar" -> "button"
      [] p = "button" -> "shap"
      [] p = "shap" -> "section1"
      [] p = "section1" -> "section2"
      [] p = "section2" -> "section3"
      [] p = "section3" -> IF predict_button THEN "predict" ELSE "footer"
      [] p = "predict" -> "footer"
      [] p = "footer" -> "done"

\* the script is one straight line: the block that follows each block when the
\* block raises nothing; line 75 skips the prediction unless Predict was pressed
NextPc(p) ==
    CASE p = "load" -> "title"
      [] p = "title" -> "sidebar"
      [] p = "sidebar" -> "button"
      [] p = "button" -> IF predict_button THEN "predict" ELSE "shap"
      [] p = "predict" -> "shap"
      [] p = "shap" -> "section1"
      [] p = "section1" -> "section2"
      [] p = "section2" -> "section3"
      [] p = "section3" -> "footer"
      [] p = "footer" -> "done"

\* the script's variables before line 1 of a run
FreshRun ==
    /\ pc = "load"
    /\ stacking_regressor = "none"
    /\ features = <<>>
    /\ input_array = <<>>
    /\ predict_arg = <<>>
    /\ prediction = <<>>
    /\ log = <<>>

\* a faulty load: after a failure the load is tried again; C6 must reject it
LoadModelRetry ==
    /\ pc = "load"
    /\ IF disk.model = "missing"
       THEN /\ log' = log \o <<Call("joblib.load"),
                               El("error", "Failed to load model", <<>>)>>
            /\ pc' = "load"
            /\ UNCHANGED stacking_regressor
       ELSE /\ stacking_regressor' = disk.model
            /\ log' = log \o <<Call("joblib.load"),
                               El("success", "Model loaded successfully!", <<>>)>>
            /\ pc' = NextPc(pc)
    /\ UNCHANGED <<disk, widgets, predict_button, features, input_array,
                   predict_arg, prediction, first, predicted, diskChanges>>
    /\ UNCHANGED adVars

\* a faulty load: the exception is not re-raised; C9 must reject it
LoadModelSwallow ==
    /\ pc = "load"
    /\ IF disk.model = "missing"
       THEN /\ log' = log \o <<Call("joblib.load"),
                               El("error", "Failed to load model", <<>>)>>
            /\ pc' = NextPc(pc)
            /\ UNCHANGED stacking_regressor
       ELSE /\ stacking_regressor' = disk.model
            /\ log' = log \o <<Call("joblib.load"),
                               El("success", "Model loaded successfully!", <<>>)>>
            /\ pc' = NextPc(pc)
    /\ UNCHANGED <<disk, widgets, predict_button, features, input_array,
                   predict_arg, prediction, first, predicted, diskChanges>>
    /\ UNCHANGED adVars

\* lines 36-42: on any exception st.error, then raise, which ends the run with
\* Streamlit's exception box
LoadModel ==
    /\ pc = "load"
    /\ IF disk.model = "missing"
       THEN /\ log' = log \o <<Call("joblib.load"),
                               El("error", "Failed to load model", <<>>),
                               El("exception", "uncaught", <<>>)>>
            /\ pc' = "crashed"
            /\ UNCHANGED stacking_regressor
       ELSE /\ stacking_regressor' = disk.model
            /\ log' = log \o <<Call("joblib.load"),
                               El("success", "Model loaded successfully!", <<>>)>>
            /\ pc' = NextPc(pc)
    /\ UNCHANGED <<disk, widgets, predict_button, features, input_array,
                   predict_arg, prediction, first, predicted, diskChanges>>
    /\ UNCHANGED adVars

\* lines 45-51; st.title and st.write of fixed text do not raise
Title ==
    /\ pc = "title"
    /\ log' = log \o <<El("title", "page", <<>>), El("write", "intro", <<>>)>>
    /\ pc' = NextPc(pc)
    /\ UNCHANGED <<disk, widgets, predict_button, stacking_regressor, features,
                   input_array, predict_arg, prediction, first, predicted, diskChanges>>
    /\ UNCHANGED adVars

\* lines 54-69: every widget is rendered with, and returns, its current value
Sidebar ==
    /\ pc = "sidebar"
    /\ features' = <<widgets>>
    /\ log' = log \o <<El("sidebar.header", "Feature Input Area", <<>>),
                       El("sidebar.write", "Please input", <<>>)>>
                  \o [i \in 1..NumFeatures |->
                        El(IF i = 1 THEN "selectbox" ELSE "number_input",
                           FeatureNames[i], <<widgets[FeatureNames[i]]>>)]
    /\ pc' = NextPc(pc)
    /\ UNCHANGED <<disk, widgets, predict_button, stacking_regressor,
                   input_array, predict_arg, prediction, first, predicted, diskChanges>>
    /\ UNCHANGED adVars

\* lines 72 and 75
Button ==
    /\ pc = "button"
    /\ log' = Append(log, El("sidebar.button", "Predict", <<>>))
    /\ pc' = NextPc(pc)
    /\ UNCHANGED <<disk, widgets, predict_button, stacking_regressor, features,
                   input_array, predict_arg, prediction, first, predicted, diskChanges>>
    /\ UNCHANGED adVars

\* lines 76-80, predict returns
PredictReturns ==
    /\ pc = "predict"
    /\ stacking_regressor = "good"
    /\ input_array' = InputArray(features[1])
    /\ predict_arg' = input_array'
    /\ prediction' = <<StackingPredict(predict_arg')[1]>>
    /\ log' = log \o <<El("header", "Prediction Result (mg/L)", <<>>),
                       Call("predict"),
                       El("success", "Prediction result", <<Format2f(prediction'[1])>>)>>
    /\ pc' = NextPc(pc)
    /\ UNCHANGED <<disk, widgets, predict_button, stacking_regressor, features,
                   first, predicted, diskChanges>>
    /\ UNCHANGED adVars

\* a faulty except: the exception is dropped without st.error; C1 must reject it
PredictRaisesSilent ==
    /\ pc = "predict"
    /\ stacking_regressor = "bad"
    /\ input_array' = InputArray(features[1])
    /\ predict_arg' = input_array'
    /\ log' = log \o <<El("header", "Prediction Result (mg/L)", <<>>),
                       Call("predict")>>
    /\ pc' = NextPc(pc)
    /\ UNCHANGED <<disk, widgets, predict_button, stacking_regressor, features,
                   prediction, first, predicted, diskChanges>>
    /\ UNCHANGED adVars

\* a faulty prediction block without try: the exception ends the run; C10 must
\* reject it
PredictRaisesUncaught ==
    /\ pc = "predict"
    /\ stacking_regressor = "bad"
    /\ input_array' = InputArray(features[1])
    /\ predict_arg' = input_array'
    /\ log' = log \o <<El("header", "Prediction Result (mg/L)", <<>>),
                       Call("predict"),
                       El("exception", "uncaught", <<>>)>>
    /\ pc' = "crashed"
    /\ UNCHANGED <<disk, widgets, predict_button, stacking_regressor, features,
                   prediction, first, predicted, diskChanges>>
    /\ UNCHANGED adVars

\* lines 76-79 and 81-82, predict raises: any Exception becomes st.error
PredictRaises ==
    /\ pc = "predict"
    /\ stacking_regressor = "bad"
    /\ input_array' = InputArray(features[1])
    /\ predict_arg' = input_array'
    /\ log' = log \o <<El("header", "Prediction Result (mg/L)", <<>>),
                       Call("predict"),
                       El("error", "Error during prediction", <<>>)>>
    /\ pc' = NextPc(pc)
    /\ UNCHANGED <<disk, widgets, predict_button, stacking_regressor, features,
                   prediction, first, predicted, diskChanges>>
    /\ UNCHANGED adVars

\* lines 85-88
ShapHeader ==
    /\ pc = "shap"
    /\ log' = log \o <<El("header", "SHAP Visualization Analysis", <<>>),
                       El("write", "charts", <<>>)>>
    /\ pc' = NextPc(pc)
    /\ UNCHANGED <<disk, widgets, predict_button, stacking_regressor, features,
                   input_array, predict_arg, prediction, first, predicted, diskChanges>>
    /\ UNCHANGED adVars

\* a faulty image block without except: a missing file ends the run; C3 must
\* reject it
ImageSectionBare(i) ==
    /\ pc = SectionPc[i]
    /\ LET head == <<El("subheader", SectionName[i], <<>>),
                     El("write", SectionName[i], <<>>),
                     Call(OpenOp[i])>>
       IN  IF disk.img[i] = "image"
           THEN /\ log' = log \o head \o <<El("image", SectionName[i], <<>>)>>
                /\ pc' = NextPc(pc)
           ELSE /\ log' = log \o head \o <<El("exception", "uncaught", <<>>)>>
                /\ pc' = "crashed"
    /\ UNCHANGED <<disk, widgets, predict_button, stacking_regressor, features,
                   input_array, predict_arg, prediction, first, predicted, diskChanges>>
    /\ UNCHANGED adVars

\* lines 91-98, 101-108 and 111-118: Image.open, then st.image; of the
\* exceptions Image.open raises only FileNotFoundError is handled
ImageSection(i) ==
    /\ pc = SectionPc[i]
    /\ LET head == <<El("subheader", SectionName[i], <<>>),
                     El("write", SectionName[i], <<>>),
                     Call(OpenOp[i])>>
       IN  CASE disk.img[i] = "image" ->
                  /\ log' = log \o head \o <<El("image", SectionName[i], <<>>)>>
                  /\ pc' = NextPc(pc)
             [] disk.img[i] = "absent" ->
                  /\ log' = log \o head \o <<El("warning", SectionName[i], <<>>)>>
                  /\ pc' = NextPc(pc)
             [] disk.img[i] = "unreadable" ->
                  /\ log' = log \o head \o <<El("exception", "uncaught", <<>>)>>
                  /\ pc' = "crashed"
    /\ UNCHANGED <<disk, widgets, predict_button, stacking_regressor, features,
                   input_array, predict_arg, prediction, first, predicted, diskChanges>>
    /\ UNCHANGED adVars

\* lines 121-128
Footer ==
    /\ pc = "footer"
    /\ log' = log \o <<El("markdown", "---", <<>>), El("header", "Summary", <<>>),
                       El("write", "summary", <<>>)>>
    /\ pc' = NextPc(pc)
    /\ UNCHANGED <<disk, widgets, predict_button, stacking_regressor, features,
                   input_array, predict_arg, prediction, first, predicted, diskChanges>>
    /\ UNCHANGED adVars

----------------------------------------------------------------------------
(* The session: Streamlit runs the whole script again, from line 1 and with *)
(* no script variable kept, on every interaction                            *)

RunInputs == [widgets |-> widgets, predict_button |-> predict_button, disk |-> disk]

\* between two runs the files stay as they are, or one of them is removed,
\* replaced or put in place
FilesBetweenRuns ==
    \/ UNCHANGED <<disk, diskChanges>>
    \/ /\ diskChanges < MaxDiskChanges
       /\ diskChanges' = diskChanges + 1
       /\ \/ \E m \in ModelFiles \ {disk.model} : disk' = [disk EXCEPT !.model = m]
          \/ \E i \in Sections : \E f \in ImageFiles \ {disk.img[i]} :
                disk' = [disk EXCEPT !.img[i] = f]

IsPredictionResult(e) == e.kind = "success" /\ e.what = "Prediction result"

\* a faulty rerun: the prediction and its result on the page outlive the run;
\* C7 must reject it
StartOverKeep ==
    /\ Ended
    /\ first' = IF first = <<>> THEN <<[inputs |-> RunInputs, page |-> Page]>> ELSE first
    /\ predicted' = (predicted \/ \E i \in 1..Len(log) : IsPredictionResult(log[i]))
    /\ pc' = "load"
    /\ stacking_regressor' = "none"
    /\ features' = <<>>
    /\ input_array' = <<>>
    /\ predict_arg' = <<>>
    /\ UNCHANGED prediction
    /\ log' = SelectSeq(log, IsPredictionResult)
    /\ FilesBetweenRuns
    /\ UNCHANGED adVars

\* the script starts over: the module is executed again from line 1, so every
\* name it binds is bound anew and the page is built anew; the session's first
\* run is kept for comparison
StartOver ==
    /\ Ended
    /\ first' = IF first = <<>> THEN <<[inputs |-> RunInputs, page |-> Page]>> ELSE first
    /\ predicted' = (predicted \/ \E i \in 1..Len(log) : IsPredictionResult(log[i]))
    /\ pc' = "load"
    /\ stacking_regressor' = "none"
    /\ features' = <<>>
    /\ input_array' = <<>>
    /\ predict_arg' = <<>>
    /\ prediction' = <<>>
    /\ log' = <<>>
    /\ FilesBetweenRuns
    /\ UNCHANGED adVars

\* the sidebar of the finished run is on the page
SidebarShown == features # <<>>

\* the user changes the inputs: a rerun with the button not pressed
EditWidgets ==
    /\ SidebarShown
    /\ \E w \in WidgetChoices \ {widgets} : widgets' = w
    /\ predict_button' = FALSE
    /\ StartOver

\* the user presses Predict: a rerun in which st.sidebar.button returns TRUE
PressPredict ==
    /\ SidebarShown
    /\ predict_button' = TRUE
    /\ UNCHANGED widgets
    /\ StartOver

\* the user reruns or reloads the page
Rerun ==
    /\ predict_button' = FALSE
    /\ UNCHANGED widgets
    /\ StartOver

Step ==
    \/ LoadModel
    \/ Title
    \/ Sidebar
    \/ Button
    \/ PredictReturns
    \/ PredictRaises
    \/ ShapHeader
    \/ \E i \in Sections : ImageSection(i)
    \/ Footer

Interaction ==
    \/ EditWidgets
    \/ PressPredict
    \/ Rerun

AdapterIdle ==
    /\ adX = <<>>
    /\ adY = <<>>
    /\ tabnet_fit = <<>>
    /\ tabnet_predict = <<>>
    /\ wrapper_result = <<>>

\* a session opens with the widgets at their defaults and nothing pressed
Init ==
    /\ disk \in [model : ModelFiles, img : [Sections -> ImageFiles]]
    /\ widgets = DefaultValue
    /\ predict_button = FALSE
    /\ first = <<>>
    /\ predicted = FALSE
    /\ diskChanges = 0
    /\ FreshRun
    /\ AdapterIdle

Next == Step \/ Interaction

Spec == Init /\ [][Next]_vars

----------------------------------------------------------------------------
(* What happened in the current run *)

Called(what) == Shows("call", what)

Loaded == stacking_regressor # "none"

LoadFailed == Called("joblib.load") /\ disk.model = "missing"

PredictRaised == Called("predict") /\ stacking_regressor = "bad"

ImageMissing(i) == Called(OpenOp[i]) /\ disk.img[i] = "absent"

ShowsResult == Shows("success", "Prediction result")

ShowsPredictError == Shows("error", "Error during prediction")

IsWidget(e) == e.kind \in {"selectbox", "number_input"}

\* every event of the first kind comes before every event of the second
Before(P(_), Q(_)) ==
    \A i \in {k \in 1..Len(log) : P(log[k])} :
        \A j \in {k \in 1..Len(log) : Q(log[k])} : i < j

Some(P(_)) == \E i \in 1..Len(log) : P(log[i])

----------------------------------------------------------------------------
(* C1 *)

\* C1: a failed model load and a raising predict each leave an error message
\* on the page of the run in which they happen, and an image file found
\* missing leaves its warning; no run has one of the failures without it.
C1_FailuresAreShown ==
    /\ LoadFailed => Shows("error", "Failed to load model")
    /\ PredictRaised => ShowsPredictError
    /\ \A i \in Sections : ImageMissing(i) => Shows("warning", SectionName[i])

C1_Witness == Ended /\ PredictRaised /\ ImageMissing(2)

----------------------------------------------------------------------------
(* C2 *)

C2_Order == <<"SEX", "AGE", "WT", "Single_Dose", "Daily_Dose", "SCR", "CLCR",
              "BUN", "ALT", "AST", "CL", "V">>

\* the number a widget holds, in hundredths; the selectbox holds 0 or 1
C2_WidgetNumber(name) == IF name = "SEX" THEN 100 * widgets.SEX ELSE widgets[name]

\* C2: when predict is called it receives one row of exactly 12 values, in the
\* order gender, age, weight, single dose per weight, daily dose, serum
\* creatinine, creatinine clearance, blood urea nitrogen, ALT, AST, clearance,
\* volume of distribution, each equal to its widget's current value.
C2_InputRow ==
    Called("predict") =>
        /\ Len(predict_arg) = 1
        /\ Len(predict_arg[1]) = 12
        /\ \A p \in 1..12 : predict_arg[1][p] = C2_WidgetNumber(C2_Order[p])

C2_Witness == Called("predict") /\ widgets # DefaultValue /\ widgets.SEX = 1

----------------------------------------------------------------------------
(* C3 *)

\* C3 as stated: a section that is reached shows the warning if and only if
\* its file is absent, and the image otherwise.
C3_ImageOtherwise ==
    \A i \in Sections :
        Called(OpenOp[i]) =>
            /\ Shows("warning", SectionName[i]) <=> disk.img[i] = "absent"
            /\ Shows("image", SectionName[i]) <=> disk.img[i] # "absent"

\* C3, amended: a section that is reached shows the warning if and only if its
\* file is absent and the image if and only if the file opens as an image,
\* never both and at most once each, whatever the other two files are and
\* whatever the prediction did; a file that is there but does not open as an
\* image shows neither, and the run ends there with the uncaught exception.
C3_ImageOrWarning ==
    \A i \in Sections :
        Called(OpenOp[i]) =>
            /\ Shows("warning", SectionName[i]) <=> disk.img[i] = "absent"
            /\ Shows("image", SectionName[i]) <=> disk.img[i] = "image"
            /\ Count("warning", SectionName[i]) + Count("image", SectionName[i]) <= 1
            /\ disk.img[i] = "unreadable" =>
                  /\ pc = "crashed"
                  /\ log[Len(log)] = El("exception", "uncaught", <<>>)

C3_Witness ==
    /\ Called(OpenOp[3])
    /\ disk.img = <<"absent", "image", "absent">>
    /\ PredictRaised

----------------------------------------------------------------------------
(* C4 *)

\* C4 as stated: every finished run with a press shows exactly one of the
\* prediction result and the prediction error.
C4_PressShowsOne ==
    Ended /\ predict_button => (ShowsResult <=> ~ShowsPredictError)

\* C4, amended: predict is called in a run if and only if Predict was pressed
\* in that run and the model loaded; a run without a press shows neither a
\* prediction result nor a prediction error; a run with a press in which the
\* model loaded shows exactly one of the two, the result when predict returns
\* and the error when it raises, never both; a run with a press in which the
\* load fails shows neither.
C4_PredictIffPressed ==
    /\ ~(ShowsResult /\ ShowsPredictError)
    /\ ~predict_button => ~Called("predict") /\ ~ShowsResult /\ ~ShowsPredictError
    /\ Called("predict") => predict_button /\ Loaded
    /\ Ended =>
          /\ Called("predict") <=> (predict_button /\ Loaded)
          /\ ShowsResult <=> (Called("predict") /\ stacking_regressor = "good")
          /\ ShowsPredictError <=> (Called("predict") /\ stacking_regressor = "bad")
          /\ predict_button /\ Loaded => (ShowsResult <=> ~ShowsPredictError)
          /\ predict_button /\ ~Loaded => ~ShowsResult /\ ~ShowsPredictError

C4_Witness == Ended /\ predict_button /\ ShowsResult /\ widgets # DefaultValue

----------------------------------------------------------------------------
(* C5 *)

C5_IsLoad(e) == e = Call("joblib.load") \/ e = El("success", "Model loaded successfully!", <<>>)

C5_IsPredictCall(e) == e = Call("predict")

C5_IsPredictOutcome(e) ==
    \/ e.kind = "success" /\ e.what = "Prediction result"
    \/ e.kind = "error" /\ e.what = "Error during prediction"

C5_IsSection(e) ==
    \/ e.kind \in {"subheader", "image", "warning"}
    \/ \E i \in Sections : e = Call(OpenOp[i])

C5_IsFooter(e) == e = El("header", "Summary", <<>>)

C5_IsSectionOf(i, e) ==
    \/ e.kind \in {"subheader", "image", "warning"} /\ e.what = SectionName[i]
    \/ e = Call(OpenOp[i])

\* C5: the run is one line: the load has completed before any widget is
\* rendered, all twelve widgets are read before predict is called, the
\* prediction's result or error is on the page before the first image section,
\* the sections come in their order and the footer last.
C5_LinearOrder ==
    /\ Some(IsWidget) => Some(C5_IsLoad) /\ Loaded
    /\ Before(C5_IsLoad, IsWidget)
    /\ Called("predict") => Cardinality({i \in 1..Len(log) : IsWidget(log[i])}) = 12
    /\ Before(IsWidget, C5_IsPredictCall)
    /\ Before(C5_IsPredictCall, C5_IsPredictOutcome)
    /\ Some(C5_IsSection) /\ predict_button => Some(C5_IsPredictOutcome)
    /\ Before(C5_IsPredictOutcome, C5_IsSection)
    /\ Before(IsWidget, C5_IsSection)
    /\ \A i, j \in Sections :
          i < j => \A a \in {k \in 1..Len(log) : C5_IsSectionOf(i, log[k])} :
                      \A b \in {k \in 1..Len(log) : C5_IsSectionOf(j, log[k])} : a < b
    /\ Before(C5_IsSection, C5_IsFooter)

C5_Witness == pc = "done" /\ ShowsResult /\ disk.img[1] = "absent"

----------------------------------------------------------------------------
(* C6 *)

\* C6: in one run the model load is attempted exactly once, predict is called
\* at most once and each image file is opened at most once, so that no failure
\* is followed by a second attempt.
C6_NoRetry ==
    /\ Count("call", "joblib.load") <= 1
    /\ pc # "load" => Count("call", "joblib.load") = 1
    /\ Count("call", "predict") <= 1
    /\ \A i \in Sections : Count("call", OpenOp[i]) <= 1

C6_Witness ==
    /\ pc = "done"
    /\ PredictRaised
    /\ ImageMissing(1)
    /\ disk.img[2] = "image"

----------------------------------------------------------------------------
(* C7 *)

----------------------------------------------------------------------------
(* C9 *)

\* C9: when the load fails the run ends right after the load error: the page
\* holds the error and the re-raised exception and nothing else, no widget is
\* rendered, predict is not called, no image section and no footer is reached.
C9_LoadFailureStops ==
    LoadFailed =>
        /\ pc = "crashed"
        /\ Page = <<El("error", "Failed to load model", <<>>),
                    El("exception", "uncaught", <<>>)>>
        /\ ~Some(IsWidget)
        /\ ~Called("predict")
        /\ ~Some(C5_IsSection)
        /\ ~Some(C5_IsFooter)

C9_Witness == LoadFailed /\ predict_button /\ widgets # DefaultValue

----------------------------------------------------------------------------
(* C10 *)

SectionDone(i) == Shows("image", SectionName[i]) \/ Shows("warning", SectionName[i])

\* C10 as stated: every finished run in which the model loaded has rendered
\* the footer.
C10_AlwaysFooter == Ended /\ Loaded => Some(C5_IsFooter)

\* C10, amended: a run in which the model loads and no image file is one that
\* is there but does not open as an image always has a next step until it has
\* rendered the footer, with all three image sections processed before it,
\* whether or not predict raised and whichever image files are absent; a file
\* that does not open as an image ends the run before the footer.
C10_FooterReached ==
    /\ ~Ended => ENABLED Step
    /\ Ended /\ Loaded /\ (\A i \in Sections : disk.img[i] # "unreadable") =>
          /\ pc = "done"
          /\ Some(C5_IsFooter)
          /\ \A i \in Sections : SectionDone(i)
    /\ Ended /\ Loaded /\ (\E i \in Sections : disk.img[i] = "unreadable") =>
          /\ pc = "crashed"
          /\ ~Some(C5_IsFooter)

C10_Witness == pc = "done" /\ PredictRaised /\ \A i \in Sections : ImageMissing(i)

----------------------------------------------------------------------------
(* TabNetRegressorWrapper: lines 17-33.  An array is its shape and its     *)
(* entries in row-major order; a DataFrame or Series is the same with      *)
(* another type, and .values is the array underneath.                      *)

CellValues == {0, 1}

Array(type, shape, data) == [type |-> type, shape |-> shape, data |-> data]

RECURSIVE SeqsOfLen(_, _)
SeqsOfLen(S, n) ==
    IF n = 0 THEN {<<>>}
    ELSE {Append(s, x) : s \in SeqsOfLen(S, n - 1), x \in S}

\* the X arguments: n x m arrays and DataFrames
Matrices(n) ==
    UNION {{Array(t, <<n, m>>, d) :
               t \in {"ndarray", "DataFrame"}, d \in SeqsOfLen(CellValues, n * m)} :
           m \in 1..MaxCols}

\* the y arguments for n rows: a Series, a one-dimensional array, a column
Targets(n) ==
    {Array("Series", <<n>>, d) : d \in SeqsOfLen(CellValues, n)}
    \cup {Array("ndarray", <<n>>, d) : d \in SeqsOfLen(CellValues, n)}
    \cup {Array("ndarray", <<n, 1>>, d) : d \in SeqsOfLen(CellValues, n)}

\* X.values, y.values
Values(a) == [a EXCEPT !.type = "ndarray"]

\* a.reshape(rows, cols), where one of the two may be -1
Reshape(a, rows, cols) ==
    LET size == Len(a.data)
    IN  [a EXCEPT !.shape = <<IF rows = -1 THEN size \div cols ELSE rows,
                              IF cols = -1 THEN size \div rows ELSE cols>>]

\* a.flatten()
Flatten(a) == [a EXCEPT !.shape = <<Len(a.data)>>]

\* row i of a two-dimensional array
Row(a, i) == [j \in 1..a.shape[2] |-> a.data[(i - 1) * a.shape[2] + j]]

\* TabNetRegressor.predict on an n x m array: an n x 1 array, one output per row
TabNetPredict(X) ==
    Array("ndarray", <<X.shape[1], 1>>,
          [i \in 1..X.shape[1] |-> WeightedSum(Row(X, i), X.shape[2])])

\* line 23 and line 32
AsArray(X) == IF X.type = "DataFrame" THEN Values(X) ELSE X

\* a faulty line 26: reshape(1, -1), one row instead of one column; C8 must
\* reject it
TargetColumnRow(y) == Reshape(IF y.type = "Series" THEN Values(y) ELSE y, 1, -1)

\* lines 25-26
TargetColumn(y) == Reshape(IF y.type = "Series" THEN Values(y) ELSE y, -1, 1)

\* lines 21-28
Fit ==
    /\ tabnet_fit = <<>>
    /\ tabnet_fit' = <<[X |-> AsArray(adX[1]), y |-> TargetColumn(adY[1])]>>
    /\ UNCHANGED <<adX, adY, tabnet_predict, wrapper_result>>
    /\ UNCHANGED appVars

\* lines 30-33
WrapperPredict ==
    /\ wrapper_result = <<>>
    /\ tabnet_predict' = <<AsArray(adX[1])>>
    /\ wrapper_result' = <<Flatten(TabNetPredict(tabnet_predict'[1]))>>
    /\ UNCHANGED <<adX, adY, tabnet_fit>>
    /\ UNCHANGED appVars

AppIdle ==
    /\ disk = [model |-> "good", img |-> [i \in Sections |-> "image"]]
    /\ widgets = DefaultValue
    /\ predict_button = FALSE
    /\ first = <<>>
    /\ predicted = FALSE
    /\ diskChanges = 0
    /\ FreshRun

InitAdapter ==
    /\ \E n \in 0..MaxRows :
         /\ adX \in {<<x>> : x \in Matrices(n)}
         /\ adY \in {<<y>> : y \in Targets(n)}
    /\ tabnet_fit = <<>>
    /\ tabnet_predict = <<>>
    /\ wrapper_result = <<>>
    /\ AppIdle

NextAdapter == Fit \/ WrapperPredict

SpecAdapter == InitAdapter /\ [][NextAdapter]_vars

----------------------------------------------------------------------------
(* C8 *)

\* C8: for an X of n rows, fit hands TabNetRegressor X's underlying array,
\* rows and columns unchanged, and the target as an n-by-1 array of the same
\* values; predict hands it the same array and returns a one-dimensional array
\* of exactly n values, the i-th being TabNetRegressor's output for row i.
C8_AdapterShapes ==
    LET n == adX[1].shape[1]
        underlying == Array("ndarray", adX[1].shape, adX[1].data)
    IN  /\ tabnet_fit # <<>> =>
              /\ tabnet_fit[1].X = underlying
              /\ tabnet_fit[1].y.type = "ndarray"
              /\ tabnet_fit[1].y.shape = <<n, 1>>
              /\ tabnet_fit[1].y.data = adY[1].data
        /\ wrapper_result # <<>> =>
              /\ tabnet_predict[1] = underlying
              /\ wrapper_result[1].type = "ndarray"
              /\ wrapper_result[1].shape = <<n>>
              /\ Len(wrapper_result[1].data) = n
              /\ \A i \in 1..n :
                    wrapper_result[1].data[i]
                        = WeightedSum(Row(underlying, i), adX[1].shape[2])

C8_Witness ==
    /\ tabnet_fit # <<>>
    /\ wrapper_result # <<>>
    /\ adX[1].type = "DataFrame"
    /\ adY[1].type = "Series"
    /\ adX[1].shape[1] >= 2
    /\ wrapper_result[1].data[1] # wrapper_result[1].data[2]

====
